---- MODULE Spec2Model ----
(***************************************************************************)
(* Vertex AI Memory Bank MCP server: the tool gateway (src/src/tools.py),  *)
(* the session state (src/src/app_state.py), the validators, the           *)
(* formatters and the startup hook (src/src/server.py).                    *)
(*                                                                         *)
(* The six tools are `async def` functions without a single `await`: each  *)
(* invocation runs to completion on the event loop, so each is one action. *)
(* The remote service is an external collaborator: what it answers (or the *)
(* exception it raises) is an input of the action.  Between two            *)
(* invocations the protocol runtime hands the returned envelope to the     *)
(* caller and waits for the next request.                                  *)
(***************************************************************************)
EXTENDS Integers, Sequences, FiniteSets, TLC

\* ------------------------------------------------------------------------
\* Bounds of the model
\* ------------------------------------------------------------------------
MaxInits == 2        \* initialize_memory_bank invocations per behaviour
MaxTurns == 2        \* turns in a conversation
MaxScopeItems == 2   \* entries in a scope dictionary
MaxResults == 2      \* items the remote service returns from a retrieval
MaxPad == 1          \* leading / trailing whitespace characters of a fact
MaxInflight == 2     \* requests received and not yet run

\* ------------------------------------------------------------------------
\* Python values
\* ------------------------------------------------------------------------
PyNone == [ty |-> "none", s |-> "", n |-> 0]
PyStr(s) == [ty |-> "str", s |-> s, n |-> 0]
PyInt(n) == [ty |-> "int", s |-> "", n |-> n]

\* bool(x) of a str, an int or None
Truthy(x) == \/ x.ty = "str" /\ x.s # ""
             \/ x.ty = "int" /\ x.n # 0

\* What a validator returns or what str(e) yields: a text with the values
\* interpolated in it (n: an index or a length; a, b: a key and a value).
Msg(text) == [text |-> text, n |-> -1, a |-> PyNone, b |-> PyNone]
MsgN(text, n) == [text |-> text, n |-> n, a |-> PyNone, b |-> PyNone]
MsgKV(text, a, b) == [text |-> text, n |-> -1, a |-> a, b |-> b]
\* a validator's None
NoError == Msg("None")

\* A fact string, up to the identity of its characters: `lead` whitespace
\* characters, then `core` characters that begin and end with a
\* non-whitespace one, then `trail` whitespace characters.  An all-whitespace
\* string has core = 0 and trail = 0.
Fact(lead, core, trail) == [lead |-> lead, core |-> core, trail |-> trail]

\* len(fact)
len(fact) == fact.lead + fact.core + fact.trail

\* fact.strip()
strip(fact) == Fact(0, fact.core, 0)

\* A scope argument: a dict (its items in iteration order) or another value.
Dict(items) == [isDict |-> TRUE, items |-> items]
NotADict == [isDict |-> FALSE, items |-> <<>>]

\* A conversation argument: a list of turns or another value.  A turn is a
\* dict (which may lack "role" or "content") or another value.
List(turns) == [isList |-> TRUE, turns |-> turns]
NotAList == [isList |-> FALSE, turns |-> <<>>]
Turn(role, content) ==
    [isDict |-> TRUE, hasRole |-> TRUE, hasContent |-> TRUE,
     role |-> role, content |-> content]
TurnNoRole(content) ==
    [isDict |-> TRUE, hasRole |-> FALSE, hasContent |-> TRUE,
     role |-> "", content |-> content]
TurnNoContent(role) ==
    [isDict |-> TRUE, hasRole |-> TRUE, hasContent |-> FALSE,
     role |-> role, content |-> ""]
NotATurn ==
    [isDict |-> FALSE, hasRole |-> FALSE, hasContent |-> FALSE,
     role |-> "", content |-> ""]

\* ------------------------------------------------------------------------
\* validators.py
\* ------------------------------------------------------------------------
RECURSIVE scope_items_error_keys_only(_, _)
\* the loop with only the keys tested
scope_items_error_keys_only(items, i) ==
    IF i > Len(items) THEN NoError
    ELSE IF items[i][1].ty # "str"
         THEN MsgKV("Scope keys and values must be strings",
                    items[i][1], items[i][2])
         ELSE scope_items_error_keys_only(items, i + 1)

RECURSIVE scope_items_error(_, _)
\* the loop over scope.items(): the error of the first offending item
scope_items_error(items, i) ==
    IF i > Len(items) THEN NoError
    ELSE IF items[i][1].ty # "str" \/ items[i][2].ty # "str"
         THEN MsgKV("Scope keys and values must be strings",
                    items[i][1], items[i][2])
         ELSE scope_items_error(items, i + 1)

validate_scope(scope) ==
    IF ~scope.isDict THEN Msg("Scope must be a dictionary")
    ELSE IF scope.items = <<>> THEN Msg("Scope cannot be empty")
    ELSE scope_items_error(scope.items, 1)

valid_roles == {"user", "assistant", "system"}

RECURSIVE turns_error_one_based(_, _)
\* the loop with the turns counted from 1
turns_error_one_based(turns, i) ==
    IF i > Len(turns) THEN NoError
    ELSE IF ~turns[i].isDict THEN MsgN("Turn must be a dictionary", i)
    ELSE IF ~turns[i].hasRole THEN MsgN("Turn missing 'role' field", i)
    ELSE IF ~turns[i].hasContent
         THEN MsgN("Turn missing 'content' field", i)
    ELSE IF turns[i].role \notin valid_roles
         THEN [MsgN("Turn has invalid role", i)
                 EXCEPT !.a = PyStr(turns[i].role)]
    ELSE turns_error_one_based(turns, i + 1)

RECURSIVE turns_error(_, _)
\* the loop over enumerate(conversation); the index reported is 0-based
turns_error(turns, i) ==
    IF i > Len(turns) THEN NoError
    ELSE IF ~turns[i].isDict THEN MsgN("Turn must be a dictionary", i - 1)
    ELSE IF ~turns[i].hasRole THEN MsgN("Turn missing 'role' field", i - 1)
    ELSE IF ~turns[i].hasContent
         THEN MsgN("Turn missing 'content' field", i - 1)
    ELSE IF turns[i].role \notin valid_roles
         THEN [MsgN("Turn has invalid role", i - 1)
                 EXCEPT !.a = PyStr(turns[i].role)]
    ELSE turns_error(turns, i + 1)

validate_conversation(conversation) ==
    IF ~conversation.isList THEN Msg("Conversation must be a list")
    ELSE IF conversation.turns = <<>> THEN Msg("Conversation cannot be empty")
    ELSE turns_error(conversation.turns, 1)

MAX_FACT_LEN == 10000

\* validate_memory_fact with the limit itself refused
validate_memory_fact_ge(fact) ==
    IF len(fact) = 0 \/ len(strip(fact)) = 0 THEN Msg("Fact cannot be empty")
    ELSE IF len(fact) >= MAX_FACT_LEN
         THEN MsgN("Fact too long (max 10000)", len(fact))
    ELSE NoError

validate_memory_fact(fact) ==
    IF len(fact) = 0 \/ len(strip(fact)) = 0 THEN Msg("Fact cannot be empty")
    ELSE IF len(fact) > MAX_FACT_LEN
         THEN MsgN("Fact too long (max 10000)", len(fact))
    ELSE NoError

\* ------------------------------------------------------------------------
\* formatters.py
\* ------------------------------------------------------------------------
\* str(x) of an attribute value: None renders as the text "None"
str(x) == IF x.ty = "none" THEN PyStr("None") ELSE PyStr(x.s)

\* A remote object is a record of its attributes; an attribute it lacks is
\* not in the record's domain.  getattr(obj, name, None):
getattr(obj, name) == IF name \in DOMAIN obj THEN obj[name] ELSE PyNone

format_memory(memory) ==
    [name |-> getattr(memory, "name"),
     fact |-> getattr(memory, "fact"),
     scope |-> getattr(memory, "scope"),
     created_time |-> str(getattr(memory, "created_time")),
     updated_time |-> str(getattr(memory, "updated_time"))]

format_conversation_events(conversation) ==
    [i \in 1..Len(conversation.turns) |->
        [content |-> [role |-> conversation.turns[i].role,
                      parts |-> <<[text |-> conversation.turns[i].content]>>]]]

\* now + ttl_seconds, in UTC, rendered with the suffix "Z"
format_ttl_expiration(now, ttl_seconds) ==
    [seconds |-> now + ttl_seconds, suffix |-> "Z"]

format_error_response(error) == [status |-> "error", error |-> error]

\* response = {"status": "success"}; response.update(data)
format_success_response(data) == data @@ [status |-> "success"]

\* ------------------------------------------------------------------------
\* config.py, app_state.py
\* ------------------------------------------------------------------------
Config(project_id, location, agent_engine_name, api_key) ==
    [project_id |-> project_id, location |-> location,
     agent_engine_name |-> agent_engine_name, api_key |-> api_key]

\* Config(): the field defaults
ConfigDefault == Config("", "us-central1", PyNone, PyNone)

\* bool(self.project_id or self.api_key)
is_valid(config) == config.project_id # "" \/ Truthy(config.api_key)

\* A client handle: the vertexai.Client built by the id-th construction.
Client(id, project, location) ==
    [id |-> id, project |-> project, location |-> location]
\* app.client is None
NoClient == Client(0, "", "")

\* An engine handle: the AgentEngine obtained by the id-th construction's
\* client, and its api_resource.name.
Engine(id, name) == [id |-> id, name |-> name]
\* app.agent_engine is None
NoEngine == Engine(0, "")

\* AppState.__init__
AppState ==
    [client |-> NoClient, agent_engine |-> NoEngine,
     config |-> ConfigDefault, initialized |-> FALSE]

\* AppState.is_ready with the engine test dropped
is_ready_flag_only(a) == a.initialized

is_ready(a) == a.initialized /\ a.agent_engine # NoEngine

\* AppState.reset clearing the client only
reset_client_only(a) == [a EXCEPT !.client = NoClient]

\* AppState.reset
reset(a) ==
    [a EXCEPT !.client = NoClient, !.agent_engine = NoEngine,
              !.initialized = FALSE]

\* ------------------------------------------------------------------------
\* The environment: process configuration, the remote service's answers
\* ------------------------------------------------------------------------
ProjectIds == {"p1", "p2"}
Locations == {"us-central1", "europe-west1"}
EngineNames == {"engines/1", "engines/2"}
\* str(e) of the exceptions the SDK raises
Errors == {Msg("403 permission denied"), Msg("404 not found")}

\* os.getenv of the four settings
EnvConfigs ==
    {Config(p, "us-central1", PyNone, k) :
        p \in {"", "p1"}, k \in {PyNone, PyStr("key")}}

\* the answer of a call that is not made
NoRsp == [kind |-> "none"]
Raises(e) == [kind |-> "raises", err |-> e]

\* ------------------------------------------------------------------------
\* State
\* ------------------------------------------------------------------------
VARIABLES
    phase,       \* "startup" before lifespan's startup part ran, "idle"
                 \* while the server waits for a request, "running" while
                 \* initialize_memory_bank is past its SDK calls, "returned" when
                 \* a tool function has returned and its result is not yet
                 \* handed to the caller
    app,         \* the global AppState
    nextId,      \* number of the next vertexai.Client construction
    call,        \* the last invocation: the operation and its arguments
    rsp,         \* what the SDK answered to it (NoRsp if it was not called)
    remote,      \* the SDK calls the last invocation issued, in order
    ret,         \* what the last invocation returned
    raised,      \* TRUE iff the last invocation propagated an exception
    ttl_calls,   \* the format_ttl_expiration calls of the last invocation
    everInitOk,  \* TRUE iff some initialize_memory_bank call has succeeded
    installed,   \* the client number and the engine resource name the most
                 \* recent successful initialize_memory_bank call returned
    inflight,    \* the requests the runtime has received and not yet run
    task         \* the frame of the initialize_memory_bank coroutine that
                 \* has obtained its engine and not yet returned

vars == <<phase, app, nextId, call, rsp, remote, ret, raised, ttl_calls,
          everInitOk, installed, inflight, task>>

\* no coroutine is between obtaining an engine and returning
NoTask == [pc |-> 0]
NoCall == [op |-> "none"]
NoRet == [status |-> "none"]

Init ==
    /\ phase = "startup"
    /\ app = AppState
    /\ nextId = 1
    /\ call = NoCall
    /\ rsp = NoRsp
    /\ remote = <<>>
    /\ ret = NoRet
    /\ raised = FALSE
    /\ ttl_calls = <<>>
    /\ everInitOk = FALSE
    /\ installed = [client |-> 0, name |-> ""]
    /\ inflight = {}
    /\ task = NoTask

\* ------------------------------------------------------------------------
\* server.py: lifespan (the part before the yield)
\* ------------------------------------------------------------------------
lifespan_startup(a, env, id, r) ==
    LET a1 == [a EXCEPT !.config = env] IN
    IF is_valid(env)
    THEN IF r.kind = "raises"
         THEN a1
         ELSE [a1 EXCEPT
                 !.client = Client(id, env.project_id, env.location),
                 !.initialized = TRUE]
    ELSE a1

lifespan ==
    /\ phase = "startup"
    /\ \E env \in EnvConfigs, r \in {[kind |-> "ok"]} \cup {Raises(e) : e \in Errors} :
        /\ app' = lifespan_startup(app, env, nextId, r)
        /\ nextId' = IF is_valid(env) THEN nextId + 1 ELSE nextId
        /\ rsp' = IF is_valid(env) THEN r ELSE NoRsp
        /\ remote' = IF is_valid(env)
                     THEN <<[api |-> "vertexai.Client",
                             project |-> env.project_id,
                             location |-> env.location]>>
                     ELSE <<>>
    /\ phase' = "idle"
    /\ call' = [op |-> "lifespan"]
    /\ UNCHANGED <<ret, raised, ttl_calls, everInitOk, installed, inflight, task>>

\* ------------------------------------------------------------------------
\* tools.py: the result of an invocation
\* ------------------------------------------------------------------------
\* What an invocation did: the state it leaves, the envelope it returns, the
\* SDK calls it issued, its format_ttl_expiration calls.
Result(a, envelope, requests, ttls) ==
    [app |-> a, ret |-> envelope, remote |-> requests, ttl_calls |-> ttls,
     raised |-> FALSE]

\* an exception that leaves the tool function instead of being caught
Propagate(a, e, requests, ttls) ==
    [app |-> a, ret |-> NoRet, remote |-> requests, ttl_calls |-> ttls,
     raised |-> TRUE]

\* the handler with the exception raised again
except_Exception_reraise(a, e, requests, ttls) ==
    Propagate(a, e, requests, ttls)

\* the handler with the failed request issued a second time
except_Exception_retry(a, e, requests, ttls) ==
    Result(a, format_error_response(e),
           IF requests = <<>> THEN requests
           ELSE Append(requests, requests[Len(requests)]), ttls)

\* the handler with the session torn down on failure
except_Exception_reset(a, e, requests, ttls) ==
    Result([a EXCEPT !.client = NoClient, !.agent_engine = NoEngine,
                     !.initialized = FALSE],
           format_error_response(e), requests, ttls)

\* except Exception as e: return format_error_response(str(e))
except_Exception(a, e, requests, ttls) ==
    Result(a, format_error_response(e), requests, ttls)

NOT_READY == Msg("Memory Bank not initialized. Call initialize_memory_bank first.")

\* app.client.agent_engines.<method>(name=app.agent_engine.api_resource.name,
\* ...): the AttributeError of evaluating the callee and then the arguments
\* on a missing handle, NoError if both evaluate.
attribute_error(a, uses_engine) ==
    IF a.client = NoClient
    THEN Msg("'NoneType' object has no attribute 'agent_engines'")
    ELSE IF uses_engine /\ a.agent_engine = NoEngine
    THEN Msg("'NoneType' object has no attribute 'api_resource'")
    ELSE NoError

\* ------------------------------------------------------------------------
\* tools.py: initialize_memory_bank
\* ------------------------------------------------------------------------
TopicLists == {<<>>, <<"USER_PREFERENCES", "BOGUS">>}

\* lines 68-77: the memory bank configuration built from the topics
memory_bank_config(memory_topics) ==
    IF memory_topics # <<>>
    THEN [customization_configs |->
            <<[memory_topics |->
                [i \in 1..Len(memory_topics) |->
                    [managed_memory_topic |->
                        [managed_topic_enum |-> memory_topics[i]]]]]>>]
    ELSE PyNone

\* lines 99-104 without the engine assignment
update_app_state_no_engine(a, client, agent_engine, project_id, location) ==
    [a EXCEPT !.client = client,
              !.config.project_id = project_id,
              !.config.location = location,
              !.initialized = TRUE]

\* lines 99-104
update_app_state(a, client, agent_engine, project_id, location) ==
    [a EXCEPT !.client = client,
              !.agent_engine = agent_engine,
              !.config.project_id = project_id,
              !.config.location = location,
              !.initialized = TRUE]

\* What the SDK answers to an initialization: the client constructor raises,
\* the engine get/create raises, or the engine is obtained (for a create,
\* under the resource name the service chose).
InitRsps ==
    {[kind |-> "raises", err |-> e, at |-> w] :
        e \in Errors, w \in {"client", "engine"}}
    \cup {[kind |-> "ok", name |-> n] : n \in EngineNames}

\* initialize_memory_bank keeping the engine already held when no name is
\* given, instead of creating one
initialize_memory_bank_reuse(a, project_id, location, memory_topics, agent_engine_name, id, r) ==
    LET construct == [api |-> "vertexai.Client", project |-> project_id,
                      location |-> location]
        client == Client(id, project_id, location)
        request ==
            IF Truthy(agent_engine_name)
            THEN [api |-> "agent_engines.get", client |-> id,
                  name |-> agent_engine_name.s]
            ELSE [api |-> "agent_engines.create", client |-> id,
                  config |-> PyNone]
        reuse == ~Truthy(agent_engine_name) /\ a.agent_engine # NoEngine
        agent_engine ==
            IF reuse THEN a.agent_engine
            ELSE Engine(id, IF Truthy(agent_engine_name)
                            THEN agent_engine_name.s ELSE r.name)
    IN  IF r.kind = "raises" /\ r.at = "client"
        THEN except_Exception(a, r.err, <<construct>>, <<>>)
        ELSE IF r.kind = "raises" /\ ~reuse
        THEN except_Exception(a, r.err, <<construct, request>>, <<>>)
        ELSE Result(update_app_state(a, client, agent_engine, project_id,
                                     location),
                    format_success_response(
                        [agent_engine_name |-> agent_engine.name,
                         project_id |-> project_id,
                         location |-> location]),
                    IF reuse THEN <<construct>> ELSE <<construct, request>>,
                    <<>>)

initialize_memory_bank(a, project_id, location, memory_topics, agent_engine_name, id, r) ==
    LET construct == [api |-> "vertexai.Client", project |-> project_id,
                      location |-> location]
        client == Client(id, project_id, location)
        config == memory_bank_config(memory_topics)
        request ==
            IF Truthy(agent_engine_name)
            THEN [api |-> "agent_engines.get", client |-> id,
                  name |-> agent_engine_name.s]
            ELSE [api |-> "agent_engines.create", client |-> id,
                  config |-> IF config # PyNone
                             THEN [context_spec |->
                                     [memory_bank_config |-> config]]
                             ELSE PyNone]
        agent_engine ==
            Engine(id, IF Truthy(agent_engine_name)
                       THEN agent_engine_name.s ELSE r.name)
    IN  IF r.kind = "raises" /\ r.at = "client"
        THEN except_Exception(a, r.err, <<construct>>, <<>>)
        ELSE IF r.kind = "raises"
        THEN except_Exception(a, r.err, <<construct, request>>, <<>>)
        ELSE Result(update_app_state(a, client, agent_engine, project_id,
                                     location),
                    format_success_response(
                        [agent_engine_name |-> agent_engine.name,
                         project_id |-> project_id,
                         location |-> location]),
                    <<construct, request>>, <<>>)

\* The answers to draw for an invocation: those of the SDK if the invocation
\* reaches it (probe: the invocation under a raising SDK), none otherwise.
RspsFor(probe, rsps) == IF probe.remote = <<>> THEN {NoRsp} ELSE rsps
Probe == Raises(Msg("probe"))

\* Installs the result of an invocation as the next state; the request is
\* no longer in flight.
Invoke(c, r, res) ==
    /\ call' = c
    /\ inflight' = inflight \ {c}
    /\ rsp' = r
    /\ app' = res.app
    /\ ret' = res.ret
    /\ remote' = res.remote
    /\ raised' = res.raised
    /\ ttl_calls' = res.ttl_calls

InitializeMemoryBank ==
    /\ phase = "idle"
    /\ nextId <= MaxInits + 1
    /\ \E project_id \in ProjectIds, location \in Locations,
          memory_topics \in TopicLists,
          agent_engine_name \in {PyNone, PyStr(""), PyStr("engines/1")},
          r \in InitRsps :
        LET res == initialize_memory_bank(app, project_id, location,
                       memory_topics, agent_engine_name, nextId, r)
        IN  /\ Invoke([op |-> "initialize_memory_bank",
                       project_id |-> project_id, location |-> location,
                       memory_topics |-> memory_topics,
                       agent_engine_name |-> agent_engine_name], r, res)
            /\ everInitOk' = (everInitOk \/ res.ret.status = "success")
            /\ installed' = IF res.ret.status = "success"
                            THEN [client |-> nextId,
                                  name |-> res.ret.agent_engine_name]
                            ELSE installed
    /\ nextId' = nextId + 1
    /\ phase' = "returned"
    /\ UNCHANGED task

\* ------------------------------------------------------------------------
\* The arguments the tools are invoked with
\* ------------------------------------------------------------------------
ScopeKeys == {PyStr("user_id"), PyInt(1)}
ScopeVals == {PyStr("u1"), PyInt(7)}

\* the dicts of at most MaxScopeItems items (keys are distinct)
ScopeItemLists ==
    UNION { { items \in [1..k -> ScopeKeys \X ScopeVals] :
                \A i, j \in 1..k : i # j => items[i][1] # items[j][1] } :
            k \in 0..MaxScopeItems }

Scopes == {NotADict} \cup {Dict(items) : items \in ScopeItemLists}

GoodTurn == Turn("user", "I love Python")
BadTurns == {Turn("robot", "beep"), TurnNoRole("hi"), TurnNoContent("user"),
             NotATurn}

\* not a list, and the lists of at most MaxTurns turns of any kind
Conversations ==
    {NotAList}
    \cup {List(turns) :
            turns \in UNION {[1..k -> {GoodTurn} \cup BadTurns] :
                               k \in 0..MaxTurns}}

\* strings of whitespace, and cores of a few characters or of a length
\* around the limit with at most MaxPad whitespace characters on each side
Facts ==
    {Fact(l, 0, 0) : l \in 0..MaxPad}
    \cup {Fact(l, c, t) :
            l \in 0..MaxPad,
            c \in {3, MAX_FACT_LEN - 1, MAX_FACT_LEN, MAX_FACT_LEN + 1},
            t \in 0..MaxPad}

Ttls == {PyNone, PyInt(-5), PyInt(0), PyInt(3600)}
Times == {1000}
SearchQueries == {PyNone, PyStr(""), PyStr("python")}
TopKs == {3, 5}
MemoryNames == {"memories/1", "memories/2"}
PageSizes == {0, 50}

\* ------------------------------------------------------------------------
\* tools.py: generate_memories
\* ------------------------------------------------------------------------
RECURSIVE events_error(_, _)
\* the exception format_conversation_events raises on a conversation that
\* validate_conversation would have rejected (NoError if it raises none)
events_error(conversation, i) ==
    IF ~conversation.isList THEN Msg("object is not iterable")
    ELSE IF i > Len(conversation.turns) THEN NoError
    ELSE IF ~conversation.turns[i].isDict
         THEN Msg("object is not subscriptable")
    ELSE IF ~conversation.turns[i].hasRole THEN Msg("'role'")
    ELSE IF ~conversation.turns[i].hasContent THEN Msg("'content'")
    ELSE events_error(conversation, i + 1)

\* An entry of the generated-memories list: {action, fact}, the fact read
\* from the nested memory if the entry has one.
generated_entry(mem) ==
    [action |-> getattr(mem, "action"),
     fact |-> IF "memory" \in DOMAIN mem
              THEN getattr(mem.memory, "fact")
              ELSE getattr(mem, "fact")]

\* lines 184-188 with only the generatedMemories attribute looked up
generated_mems_of_camel_only(response) ==
    IF "generatedMemories" \in DOMAIN response
    THEN response.generatedMemories
    ELSE <<>>

\* lines 184-188: the list under either attribute name, None if under none
generated_mems_of(response) ==
    IF "generatedMemories" \in DOMAIN response
    THEN response.generatedMemories
    ELSE IF "generated_memories" \in DOMAIN response
    THEN response.generated_memories
    ELSE <<>>

\* lines 175-201: the result built from the operation
generate_result(operation, scope) ==
    LET result == [operation_name |-> operation.name,
                   done |-> operation.done, scope |-> scope]
        generated_mems ==
            IF operation.done /\ "response" \in DOMAIN operation
            THEN generated_mems_of(operation.response)
            ELSE <<>>
    IN  IF generated_mems # <<>>
        THEN [generated_memories |->
                [i \in 1..Len(generated_mems) |->
                    generated_entry(generated_mems[i])]] @@ result
        ELSE result

GenEntries ==
    {[action |-> PyStr("CREATED"), memory |-> [fact |-> PyStr("loves Python")]],
     [action |-> PyStr("UPDATED"), fact |-> PyStr("is Alice")],
     [memory |-> [name |-> PyStr("memories/1")], fact |-> PyStr("is Bob")]}

GenResponses ==
    {[other |-> PyNone],
     [generatedMemories |-> <<>>],
     [generated_memories |-> <<>>]}
    \cup {[generatedMemories |-> <<e>>] : e \in GenEntries}
    \cup {[generatedMemories |-> <<>>, generated_memories |-> <<e>>] :
            e \in GenEntries}
    \cup {[generated_memories |-> <<e, f>>] :
            <<e, f>> \in {p \in GenEntries \X GenEntries : p[1] # p[2]}}

\* the operations the service answers with
GenOperations ==
    {[name |-> "operations/1", done |-> FALSE],
     [name |-> "operations/2", done |-> TRUE]}
    \cup {[name |-> "operations/3", done |-> d, response |-> r] :
            d \in BOOLEAN, r \in GenResponses}

GenRsps == {Raises(e) : e \in Errors}
           \cup {[kind |-> "ok", operation |-> o] : o \in GenOperations}

\* lines 160-207: the try block and its handler
generate_try(a, conversation, scope, wait_for_completion, r) ==
    LET request == [api |-> "generate_memories", client |-> a.client.id,
                    name |-> a.agent_engine.name,
                    direct_contents_source |->
                        [events |-> format_conversation_events(conversation)],
                    scope |-> scope,
                    config |-> [wait_for_completion |-> wait_for_completion]]
    IN  IF events_error(conversation, 1) # NoError
        THEN except_Exception(a, events_error(conversation, 1), <<>>, <<>>)
        ELSE IF attribute_error(a, TRUE) # NoError
        THEN except_Exception(a, attribute_error(a, TRUE), <<>>, <<>>)
        ELSE IF r.kind = "raises"
        THEN except_Exception(a, r.err, <<request>>, <<>>)
        ELSE Result(a, format_success_response(
                           generate_result(r.operation, scope)),
                    <<request>>, <<>>)

generate_memories(a, conversation, scope, wait_for_completion, r) ==
    IF ~is_ready(a)
    THEN Result(a, format_error_response(NOT_READY), <<>>, <<>>)
    ELSE IF validate_scope(scope) # NoError
    THEN Result(a, format_error_response(validate_scope(scope)), <<>>, <<>>)
    ELSE IF validate_conversation(conversation) # NoError
    THEN Result(a, format_error_response(validate_conversation(conversation)),
                <<>>, <<>>)
    ELSE generate_try(a, conversation, scope, wait_for_completion, r)

GenerateMemories ==
    /\ phase = "idle"
    /\ \E conversation \in Conversations, scope \in Scopes,
          wait_for_completion \in BOOLEAN :
      \E r \in RspsFor(generate_memories(app, conversation, scope,
                                         wait_for_completion, Probe),
                       GenRsps) :
        Invoke([op |-> "generate_memories", conversation |-> conversation,
                scope |-> scope,
                wait_for_completion |-> wait_for_completion], r,
               generate_memories(app, conversation, scope,
                                 wait_for_completion, r))
    /\ phase' = "returned"
    /\ UNCHANGED <<nextId, everInitOk, installed, task>>

\* ------------------------------------------------------------------------
\* The memories of the remote service
\* ------------------------------------------------------------------------
\* a Memory as the SDK yields it: a datetime renders as its text
Datetime(text) == [ty |-> "datetime", s |-> text, n |-> 0]

StoredMemory(name, fact, scope) ==
    [name |-> PyStr(name), fact |-> fact, scope |-> scope,
     created_time |-> Datetime("2025-01-01 00:00:00+00:00"),
     updated_time |-> Datetime("2025-01-02 00:00:00+00:00")]

Memories ==
    {StoredMemory("memories/1", Fact(0, 3, 0),
                  Dict(<<<<PyStr("user_id"), PyStr("u1")>>>>)),
     [name |-> PyStr("memories/2"), fact |-> Fact(0, 3, 0)]}

\* ------------------------------------------------------------------------
\* tools.py: retrieve_memories
\* ------------------------------------------------------------------------
\* the items of a retrieval: a memory, with or without a distance
RetrievedItems ==
    {[memory |-> [name |-> PyStr("memories/2"), fact |-> Fact(0, 3, 0)]],
     [memory |-> StoredMemory("memories/1", Fact(0, 3, 0),
                     Dict(<<<<PyStr("user_id"), PyStr("u1")>>>>)),
      distance |-> 2]}

RetrieveRsps ==
    {Raises(e) : e \in Errors}
    \cup {[kind |-> "ok", results |-> rs] :
            rs \in UNION {[1..k -> RetrievedItems] : k \in 0..MaxResults}}

\* lines 250-265: the request, with the similarity parameters only for a
\* search query that is given and not taken as omitted
retrieve_request(a, scope, search_query, top_k) ==
    IF Truthy(search_query)
    THEN [api |-> "retrieve_memories", client |-> a.client.id,
          name |-> a.agent_engine.name, scope |-> scope,
          similarity_search_params |->
              [search_query |-> search_query.s, top_k |-> top_k]]
    ELSE [api |-> "retrieve_memories", client |-> a.client.id,
          name |-> a.agent_engine.name, scope |-> scope]

\* lines 271-274 with the score attached whatever the search query
retrieved_item_always_scored(retrieved, search_query) ==
    IF "distance" \in DOMAIN retrieved
    THEN [similarity_score |-> retrieved.distance]
         @@ format_memory(retrieved.memory)
    ELSE format_memory(retrieved.memory)

\* lines 271-274: one formatted item, with its score when searching
retrieved_item(retrieved, search_query) ==
    IF Truthy(search_query) /\ "distance" \in DOMAIN retrieved
    THEN [similarity_score |-> retrieved.distance]
         @@ format_memory(retrieved.memory)
    ELSE format_memory(retrieved.memory)

\* lines 248-282: the try block and its handler
retrieve_try(a, scope, search_query, top_k, r) ==
    LET request == retrieve_request(a, scope, search_query, top_k)
        memories == [i \in 1..Len(r.results) |->
                        retrieved_item(r.results[i], search_query)]
    IN  IF attribute_error(a, TRUE) # NoError
        THEN except_Exception(a, attribute_error(a, TRUE), <<>>, <<>>)
        ELSE IF r.kind = "raises"
        THEN except_Exception(a, r.err, <<request>>, <<>>)
        ELSE Result(a, format_success_response(
                           [scope |-> scope,
                            memories_count |-> Len(memories),
                            memories |-> memories]),
                    <<request>>, <<>>)

retrieve_memories(a, scope, search_query, top_k, r) ==
    IF ~is_ready(a)
    THEN Result(a, format_error_response(NOT_READY), <<>>, <<>>)
    ELSE IF validate_scope(scope) # NoError
    THEN Result(a, format_error_response(validate_scope(scope)), <<>>, <<>>)
    ELSE retrieve_try(a, scope, search_query, top_k, r)

RetrieveMemories ==
    /\ phase = "idle"
    /\ \E scope \in Scopes, search_query \in SearchQueries, top_k \in TopKs :
      \E r \in RspsFor(retrieve_memories(app, scope, search_query, top_k,
                                         Probe), RetrieveRsps) :
        Invoke([op |-> "retrieve_memories", scope |-> scope,
                search_query |-> search_query, top_k |-> top_k], r,
               retrieve_memories(app, scope, search_query, top_k, r))
    /\ phase' = "returned"
    /\ UNCHANGED <<nextId, everInitOk, installed, task>>

\* ------------------------------------------------------------------------
\* tools.py: create_memory
\* ------------------------------------------------------------------------
\* line 327 with zero and negative TTLs let through
ttl_given_any(ttl_seconds) == ttl_seconds.ty = "int"

\* line 327: if ttl_seconds and ttl_seconds > 0
ttl_given(ttl_seconds) == Truthy(ttl_seconds) /\ ttl_seconds.n > 0

\* line 333: the fact argument of the remote call is the parameter `fact`;
\* memory_data["fact"] = fact.strip() of line 324 is never read
request_fact(fact) == fact

\* lines 331-340: the request
create_request(a, fact, scope, ttl_seconds, now) ==
    [api |-> "create_memory", client |-> a.client.id,
     name |-> a.agent_engine.name, fact |-> request_fact(fact),
     scope |-> scope,
     config |-> IF ttl_given(ttl_seconds)
                THEN [expire_time |->
                        format_ttl_expiration(now, ttl_seconds.n)]
                ELSE PyNone]

\* the operation the service answers with: its response is the memory it
\* stored, or None
CreateRsps ==
    {Raises(e) : e \in Errors}
    \cup {[kind |-> "ok", name |-> "operations/9", responded |-> b] :
            b \in BOOLEAN}

\* lines 343-347: the memory is the response, else the operation itself
created_memory(request, r) ==
    IF r.responded
    THEN StoredMemory("memories/1", request.fact, request.scope)
    ELSE [name |-> PyStr(r.name), response |-> PyNone]

\* lines 322-355: the try block and its handler
create_try(a, fact, scope, ttl_seconds, now, r) ==
    LET request == create_request(a, fact, scope, ttl_seconds, now)
        ttls == IF ttl_given(ttl_seconds)
                THEN <<[now |-> now, ttl_seconds |-> ttl_seconds.n]>>
                ELSE <<>>
    IN  IF attribute_error(a, TRUE) # NoError
        THEN except_Exception(a, attribute_error(a, TRUE), <<>>, ttls)
        ELSE IF r.kind = "raises"
        THEN except_Exception(a, r.err, <<request>>, ttls)
        ELSE Result(a, format_success_response(
                           [memory |->
                               format_memory(created_memory(request, r))]),
                    <<request>>, ttls)

\* create_memory with the scope validated before the fact
create_memory_scope_first(a, fact, scope, ttl_seconds, now, r) ==
    IF ~is_ready(a)
    THEN Result(a, format_error_response(NOT_READY), <<>>, <<>>)
    ELSE IF validate_scope(scope) # NoError
    THEN Result(a, format_error_response(validate_scope(scope)), <<>>, <<>>)
    ELSE IF validate_memory_fact(fact) # NoError
    THEN Result(a, format_error_response(validate_memory_fact(fact)),
                <<>>, <<>>)
    ELSE create_try(a, fact, scope, ttl_seconds, now, r)

create_memory(a, fact, scope, ttl_seconds, now, r) ==
    IF ~is_ready(a)
    THEN Result(a, format_error_response(NOT_READY), <<>>, <<>>)
    ELSE IF validate_memory_fact(fact) # NoError
    THEN Result(a, format_error_response(validate_memory_fact(fact)),
                <<>>, <<>>)
    ELSE IF validate_scope(scope) # NoError
    THEN Result(a, format_error_response(validate_scope(scope)), <<>>, <<>>)
    ELSE create_try(a, fact, scope, ttl_seconds, now, r)

CreateMemory ==
    /\ phase = "idle"
    /\ \E fact \in Facts, scope \in Scopes, ttl_seconds \in Ttls,
          now \in Times :
      \E r \in RspsFor(create_memory(app, fact, scope, ttl_seconds, now,
                                     Probe), CreateRsps) :
        Invoke([op |-> "create_memory", fact |-> fact, scope |-> scope,
                ttl_seconds |-> ttl_seconds], r,
               create_memory(app, fact, scope, ttl_seconds, now, r))
    /\ phase' = "returned"
    /\ UNCHANGED <<nextId, everInitOk, installed, task>>

\* ------------------------------------------------------------------------
\* tools.py: delete_memory, list_memories
\* ------------------------------------------------------------------------
DeleteRsps == {Raises(e) : e \in Errors} \cup {[kind |-> "ok"]}

delete_try(a, memory_name, r) ==
    LET request == [api |-> "delete_memory", client |-> a.client.id,
                    name |-> memory_name]
    IN  IF attribute_error(a, FALSE) # NoError
        THEN except_Exception(a, attribute_error(a, FALSE), <<>>, <<>>)
        ELSE IF r.kind = "raises"
        THEN except_Exception(a, r.err, <<request>>, <<>>)
        ELSE Result(a, format_success_response([deleted |-> memory_name]),
                    <<request>>, <<>>)

delete_memory(a, memory_name, r) ==
    IF ~is_ready(a)
    THEN Result(a, format_error_response(NOT_READY), <<>>, <<>>)
    ELSE delete_try(a, memory_name, r)

DeleteMemory ==
    /\ phase = "idle"
    /\ \E memory_name \in MemoryNames :
      \E r \in RspsFor(delete_memory(app, memory_name, Probe), DeleteRsps) :
        Invoke([op |-> "delete_memory", memory_name |-> memory_name], r,
               delete_memory(app, memory_name, r))
    /\ phase' = "returned"
    /\ UNCHANGED <<nextId, everInitOk, installed, task>>

\* the pager's items, or the exception of the call or of the iteration
ListRsps ==
    {Raises(e) : e \in Errors}
    \cup {[kind |-> "ok", pager |-> ms] :
            ms \in UNION {[1..k -> Memories] : k \in 0..MaxResults}}

list_try(a, page_size, r) ==
    LET request == [api |-> "list_memories", client |-> a.client.id,
                    name |-> a.agent_engine.name,
                    config |-> IF page_size # 0
                               THEN [page_size |-> page_size]
                               ELSE PyNone]
        memories == [i \in 1..Len(r.pager) |-> format_memory(r.pager[i])]
    IN  IF attribute_error(a, TRUE) # NoError
        THEN except_Exception(a, attribute_error(a, TRUE), <<>>, <<>>)
        ELSE IF r.kind = "raises"
        THEN except_Exception(a, r.err, <<request>>, <<>>)
        ELSE Result(a, format_success_response(
                           [count |-> Len(memories), memories |-> memories]),
                    <<request>>, <<>>)

list_memories(a, page_size, r) ==
    IF ~is_ready(a)
    THEN Result(a, format_error_response(NOT_READY), <<>>, <<>>)
    ELSE list_try(a, page_size, r)

ListMemories ==
    /\ phase = "idle"
    /\ \E page_size \in PageSizes :
      \E r \in RspsFor(list_memories(app, page_size, Probe), ListRsps) :
        Invoke([op |-> "list_memories", page_size |-> page_size], r,
               list_memories(app, page_size, r))
    /\ phase' = "returned"
    /\ UNCHANGED <<nextId, everInitOk, installed, task>>

\* ------------------------------------------------------------------------
\* The server
\* ------------------------------------------------------------------------
\* server.run(): the runtime sends the result of the invocation to the
\* caller and waits for the next request
respond ==
    /\ phase = "returned"
    /\ phase' = "idle"
    /\ call' = NoCall
    /\ rsp' = NoRsp
    /\ remote' = <<>>
    /\ ret' = NoRet
    /\ raised' = FALSE
    /\ ttl_calls' = <<>>
    /\ UNCHANGED <<app, nextId, everInitOk, installed, inflight, task>>

Next ==
    \/ lifespan
    \/ respond
    \/ InitializeMemoryBank
    \/ GenerateMemories
    \/ RetrieveMemories
    \/ CreateMemory
    \/ DeleteMemory
    \/ ListMemories

Spec == Init /\ [][Next]_vars

\* ------------------------------------------------------------------------
\* Properties
\* ------------------------------------------------------------------------
MemoryOps == {"generate_memories", "retrieve_memories", "create_memory",
              "delete_memory", "list_memories"}
Tools == MemoryOps \cup {"initialize_memory_bank"}

\* the scopes validate_scope has to reject: not a mapping, empty, or with a
\* key or a value that is not a string
Malformed(scope) ==
    \/ ~scope.isDict
    \/ Len(scope.items) = 0
    \/ \E i \in 1..Len(scope.items) :
          scope.items[i][1].ty # "str" \/ scope.items[i][2].ty # "str"

\* C1: as long as no initialize_memory_bank call has succeeded (also after
\* the pre-initialization at startup and after failed initializations) every
\* memory operation returns the error envelope with the fixed not-ready
\* message and issues no remote call.
C1_ReadinessGating ==
    (~everInitOk /\ call.op \in MemoryOps)
        => /\ ~raised
           /\ ret = format_error_response(NOT_READY)
           /\ remote = <<>>

\* a memory operation with valid arguments refused after the startup
\* pre-initialization set `initialized`
C1_Witness ==
    /\ ~everInitOk
    /\ app.initialized
    /\ call.op = "create_memory"
    /\ validate_scope(call.scope) = NoError
    /\ validate_memory_fact(call.fact) = NoError
    /\ ret.status = "error"

\* C2: in every reachable state, initialized implies that the client handle
\* and the engine handle are both present.
C2_InitializedImpliesHandles ==
    app.initialized => (app.client # NoClient /\ app.agent_engine # NoEngine)

\* C3: an initialize_memory_bank call that fails returns the error envelope
\* with the exception's message and leaves the session state as it was.
C3_FailureAtomicity ==
    [][(call'.op = "initialize_memory_bank" /\ ret'.status = "error")
         => (app' = app /\ ret' = format_error_response(rsp'.err))]_vars

\* a re-initialization that failed in READY, the session still READY
C3_Witness ==
    /\ call.op = "initialize_memory_bank"
    /\ ret.status = "error"
    /\ rsp.at = "engine"
    /\ everInitOk
    /\ is_ready(app)

\* C4: after a successful initialize_memory_bank the session holds the client
\* and the engine this call obtained, the project id and location of the
\* call, initialized is true, is_ready() holds, and the envelope carries the
\* engine's resource name, the project id and the location.
C4_SuccessPostcondition ==
    (call.op = "initialize_memory_bank" /\ ret.status = "success")
        => /\ app.client = Client(nextId - 1, call.project_id, call.location)
           /\ app.agent_engine =
                Engine(nextId - 1,
                       IF Truthy(call.agent_engine_name)
                       THEN call.agent_engine_name.s ELSE rsp.name)
           /\ app.config.project_id = call.project_id
           /\ app.config.location = call.location
           /\ app.initialized
           /\ is_ready(app)
           /\ ret.agent_engine_name = app.agent_engine.name
           /\ ret.project_id = call.project_id
           /\ ret.location = call.location

\* a second construction installed: the handles of the re-initialization
C4_Witness ==
    /\ call.op = "initialize_memory_bank"
    /\ ret.status = "success"
    /\ app.client.id = 2
    /\ app.agent_engine.id = 2

\* C5: every tool invocation returns one envelope whose status is "success"
\* or "error", an error envelope carrying a message, which is the
\* exception's text when the SDK raised; none propagates an exception.
C5_UniformEnvelope ==
    call.op \in Tools
        => /\ ~raised
           /\ ret.status \in {"success", "error"}
           /\ ret.status = "error" => "error" \in DOMAIN ret
           /\ rsp.kind = "raises" => ret = format_error_response(rsp.err)

\* a memory operation whose remote call raised
C5_Witness ==
    /\ call.op = "list_memories"
    /\ rsp.kind = "raises"
    /\ remote # <<>>
    /\ ret.status = "error"

\* C6: the preconditions are checked in order and the first failing one
\* decides the error: generate_memories ready, scope, conversation;
\* create_memory ready, fact, scope; retrieve_memories ready, scope.
C6_PreconditionOrder ==
    /\ call.op \in {"generate_memories", "create_memory", "retrieve_memories"}
         => (~is_ready(app) => ret = format_error_response(NOT_READY))
    /\ (call.op = "generate_memories" /\ is_ready(app))
         => /\ validate_scope(call.scope) # NoError
                => ret = format_error_response(validate_scope(call.scope))
            /\ (validate_scope(call.scope) = NoError
                 /\ validate_conversation(call.conversation) # NoError)
                => ret = format_error_response(
                             validate_conversation(call.conversation))
    /\ (call.op = "create_memory" /\ is_ready(app))
         => /\ validate_memory_fact(call.fact) # NoError
                => ret = format_error_response(validate_memory_fact(call.fact))
            /\ (validate_memory_fact(call.fact) = NoError
                 /\ validate_scope(call.scope) # NoError)
                => ret = format_error_response(validate_scope(call.scope))
    /\ (call.op = "retrieve_memories" /\ is_ready(app))
         => (validate_scope(call.scope) # NoError
                => ret = format_error_response(validate_scope(call.scope)))

\* create_memory in READY with both the fact and the scope invalid
C6_Witness ==
    /\ call.op = "create_memory"
    /\ is_ready(app)
    /\ validate_memory_fact(call.fact) # NoError
    /\ validate_scope(call.scope) # NoError
    /\ ret.status = "error"

\* C7: validate_scope returns an error for every malformed scope and None
\* for every well-formed one; in READY, generate_memories, retrieve_memories
\* and create_memory with a malformed scope return an error envelope and
\* issue no remote call.
C7_MalformedScopeRejected ==
    call.op \in {"generate_memories", "retrieve_memories", "create_memory"}
        => /\ Malformed(call.scope) <=> validate_scope(call.scope) # NoError
           /\ (is_ready(app) /\ Malformed(call.scope))
                => (ret.status = "error" /\ remote = <<>> /\ ~raised)

\* retrieve_memories in READY with a scope whose only value is not a string
C7_Witness ==
    /\ call.op = "retrieve_memories"
    /\ is_ready(app)
    /\ call.scope.isDict
    /\ Len(call.scope.items) = 1
    /\ call.scope.items[1][1].ty = "str"
    /\ call.scope.items[1][2].ty = "int"
    /\ ret.status = "error"

\* C8: the fact sent to the remote create-memory call is the fact with its
\* leading and trailing whitespace removed.
C8_TrimmedFactSent ==
    (call.op = "create_memory" /\ remote # <<>>)
        => remote[1].fact = strip(call.fact)

\* C9: the remote create-memory call carries an expiration if and only if
\* ttl_seconds is given and strictly positive (then it is the one
\* format_ttl_expiration computed); otherwise it carries no expiration
\* configuration and format_ttl_expiration is not invoked.
C9_TtlGating ==
    call.op = "create_memory"
        => /\ ~(call.ttl_seconds.ty = "int" /\ call.ttl_seconds.n > 0)
                => ttl_calls = <<>>
           /\ remote # <<>>
                => IF call.ttl_seconds.ty = "int" /\ call.ttl_seconds.n > 0
                   THEN /\ Len(ttl_calls) = 1
                        /\ ttl_calls[1].ttl_seconds = call.ttl_seconds.n
                        /\ remote[1].config =
                             [expire_time |->
                                format_ttl_expiration(ttl_calls[1].now,
                                                      call.ttl_seconds.n)]
                   ELSE remote[1].config = PyNone

\* a memory created with a positive TTL: the request carries the expiration
C9_Witness ==
    /\ call.op = "create_memory"
    /\ remote # <<>>
    /\ call.ttl_seconds = PyInt(3600)
    /\ remote[1].config # PyNone
    /\ ret.status = "success"

\* C10 as stated: with search_query given the remote call is the similarity
\* search with that query and top_k and every returned item has a
\* similarity_score, the remote-reported distance; with search_query omitted
\* the call carries only the scope and no item has a similarity_score.
C10_BranchOnGiven ==
    (call.op = "retrieve_memories" /\ ret.status = "success")
        => IF call.search_query # PyNone
           THEN /\ "similarity_search_params" \in DOMAIN remote[1]
                /\ remote[1].similarity_search_params =
                     [search_query |-> call.search_query.s,
                      top_k |-> call.top_k]
                /\ \A i \in 1..Len(ret.memories) :
                     /\ "similarity_score" \in DOMAIN ret.memories[i]
                     /\ "distance" \in DOMAIN rsp.results[i]
                     /\ ret.memories[i].similarity_score
                          = rsp.results[i].distance
           ELSE /\ "similarity_search_params" \notin DOMAIN remote[1]
                /\ \A i \in 1..Len(ret.memories) :
                     "similarity_score" \notin DOMAIN ret.memories[i]

\* C10 amended: the similarity search is made for a search_query that is
\* given and not empty, and an item has a similarity_score exactly when the
\* remote result reports a distance, which it then equals; for a
\* search_query omitted or empty the call carries only the scope and no item
\* has a similarity_score.
C10_BranchOnNonEmpty ==
    (call.op = "retrieve_memories" /\ ret.status = "success")
        => /\ Len(ret.memories) = Len(rsp.results)
           /\ remote[1].scope = call.scope
           /\ IF call.search_query.ty = "str" /\ call.search_query.s # ""
              THEN /\ "similarity_search_params" \in DOMAIN remote[1]
                   /\ remote[1].similarity_search_params =
                        [search_query |-> call.search_query.s,
                         top_k |-> call.top_k]
                   /\ \A i \in 1..Len(ret.memories) :
                        IF "distance" \in DOMAIN rsp.results[i]
                        THEN /\ "similarity_score" \in DOMAIN ret.memories[i]
                             /\ ret.memories[i].similarity_score
                                  = rsp.results[i].distance
                        ELSE "similarity_score" \notin DOMAIN ret.memories[i]
              ELSE /\ "similarity_search_params" \notin DOMAIN remote[1]
                   /\ \A i \in 1..Len(ret.memories) :
                        "similarity_score" \notin DOMAIN ret.memories[i]

\* a search that returned two items, one of them scored
C10_Witness ==
    /\ call.op = "retrieve_memories"
    /\ ret.status = "success"
    /\ call.search_query = PyStr("python")
    /\ call.top_k = 3
    /\ Len(ret.memories) = 2
    /\ "similarity_score" \in DOMAIN ret.memories[1]

\* the success envelope of generate_memories carries the operation's name,
\* its done flag and the scope of the call
GenerateEchoes ==
    /\ {"operation_name", "done", "scope"} \subseteq DOMAIN ret
    /\ ret.operation_name = rsp.operation.name
    /\ ret.done = rsp.operation.done
    /\ ret.scope = call.scope

\* the i-th pair of the envelope is the i-th remote entry's action and fact,
\* the fact read from the entry's memory if the entry has one
GeneratedPairs(entries) ==
    /\ Len(ret.generated_memories) = Len(entries)
    /\ \A i \in 1..Len(entries) :
         /\ ret.generated_memories[i].action =
              (IF "action" \in DOMAIN entries[i]
               THEN entries[i].action ELSE PyNone)
         /\ ret.generated_memories[i].fact =
              (IF "memory" \in DOMAIN entries[i]
               THEN (IF "fact" \in DOMAIN entries[i].memory
                     THEN entries[i].memory.fact ELSE PyNone)
               ELSE IF "fact" \in DOMAIN entries[i]
               THEN entries[i].fact ELSE PyNone)

\* C11 as stated: the success envelope of generate_memories carries
\* operation_name, done and the scope, and a generated_memories list if and
\* only if done is true and the response has a list under generatedMemories
\* or generated_memories, with one {action, fact} pair per entry in order.
C11_ListIffExposed ==
    (call.op = "generate_memories" /\ ret.status = "success")
        => /\ GenerateEchoes
           /\ "generated_memories" \in DOMAIN ret
                <=> /\ rsp.operation.done
                    /\ "response" \in DOMAIN rsp.operation
                    /\ \/ "generatedMemories" \in DOMAIN rsp.operation.response
                       \/ "generated_memories" \in DOMAIN rsp.operation.response
           /\ "generated_memories" \in DOMAIN ret
                => GeneratedPairs(
                     IF "generatedMemories" \in DOMAIN rsp.operation.response
                     THEN rsp.operation.response.generatedMemories
                     ELSE rsp.operation.response.generated_memories)

\* C11 amended: the list is the one under generatedMemories if the response
\* has that attribute, else the one under generated_memories; the envelope
\* has generated_memories if and only if done is true and that list is not
\* empty, with one {action, fact} pair per entry in order.
C11_ListIffNonEmpty ==
    (call.op = "generate_memories" /\ ret.status = "success")
        => /\ GenerateEchoes
           /\ "generated_memories" \in DOMAIN ret
                <=> /\ rsp.operation.done
                    /\ "response" \in DOMAIN rsp.operation
                    /\ \/ /\ "generatedMemories"
                               \in DOMAIN rsp.operation.response
                          /\ rsp.operation.response.generatedMemories # <<>>
                       \/ /\ "generatedMemories"
                               \notin DOMAIN rsp.operation.response
                          /\ "generated_memories"
                               \in DOMAIN rsp.operation.response
                          /\ rsp.operation.response.generated_memories # <<>>
           /\ "generated_memories" \in DOMAIN ret
                => GeneratedPairs(
                     IF "generatedMemories" \in DOMAIN rsp.operation.response
                     THEN rsp.operation.response.generatedMemories
                     ELSE rsp.operation.response.generated_memories)

\* a completed generation whose two entries, found under generated_memories,
\* are returned in order, one with its fact in the nested memory
C11_Witness ==
    /\ call.op = "generate_memories"
    /\ ret.status = "success"
    /\ "generated_memories" \in DOMAIN ret
    /\ "generated_memories" \in DOMAIN rsp.operation.response
    /\ Len(ret.generated_memories) = 2
    /\ "memory" \in DOMAIN rsp.operation.response.generated_memories[1]
    /\ ret.generated_memories[1].fact = PyStr("loves Python")

\* a turn validate_conversation has to reject
BadTurn(turn) ==
    \/ ~turn.isDict
    \/ ~turn.hasRole
    \/ ~turn.hasContent
    \/ turn.role \notin {"user", "assistant", "system"}

\* C12: validate_conversation returns an error exactly when the conversation
\* is not a list, is empty or has an ill-formed turn; the error of an
\* ill-formed turn names the 0-based index of the first one; a conversation
\* of well-formed turns yields None.
C12_ConversationValidation ==
    call.op = "generate_memories"
        => LET c == call.conversation
               bad == {i \in 1..Len(c.turns) : BadTurn(c.turns[i])}
           IN  /\ validate_conversation(c) # NoError
                    <=> (~c.isList \/ c.turns = <<>> \/ bad # {})
               /\ (c.isList /\ bad # {})
                    => \E i \in bad :
                         /\ \A j \in bad : i <= j
                         /\ validate_conversation(c).n = i - 1

\* generate_memories in READY refused for its second turn, the first one
\* being well-formed
C12_Witness ==
    /\ call.op = "generate_memories"
    /\ is_ready(app)
    /\ validate_scope(call.scope) = NoError
    /\ Len(call.conversation.turns) = 2
    /\ ~BadTurn(call.conversation.turns[1])
    /\ BadTurn(call.conversation.turns[2])
    /\ ret.status = "error"
    /\ ret.error.n = 1

\* C13 as stated: validate_memory_fact fails if and only if the trimmed fact
\* is empty or the trimmed fact has more than 10,000 characters.
C13_TrimmedLengthLimit ==
    call.op = "create_memory"
        => (validate_memory_fact(call.fact) # NoError
              <=> \/ len(strip(call.fact)) = 0
                  \/ len(strip(call.fact)) > 10000)

\* C13 amended: validate_memory_fact fails if and only if the trimmed fact is
\* empty or the fact as given, whitespace included, has more than 10,000
\* characters; the length error carries that length.
C13_GivenLengthLimit ==
    call.op = "create_memory"
        => /\ validate_memory_fact(call.fact) # NoError
                <=> \/ len(strip(call.fact)) = 0
                    \/ len(call.fact) > 10000
           /\ (len(strip(call.fact)) > 0 /\ len(call.fact) > 10000)
                => validate_memory_fact(call.fact).n = len(call.fact)
           /\ (len(strip(call.fact)) >= 1 /\ len(call.fact) <= 10000)
                => validate_memory_fact(call.fact) = NoError

\* create_memory in READY refused for a fact of 10,000 characters after one
\* whitespace character: 10,001 characters as given
C13_Witness ==
    /\ call.op = "create_memory"
    /\ is_ready(app)
    /\ call.fact = Fact(1, 10000, 0)
    /\ ret.status = "error"
    /\ ret.error.n = 10001

\* the invocation passed the preconditions of its operation
PreconditionsPass ==
    /\ is_ready(app)
    /\ call.op \in {"generate_memories", "retrieve_memories", "create_memory"}
         => validate_scope(call.scope) = NoError
    /\ call.op = "generate_memories"
         => validate_conversation(call.conversation) = NoError
    /\ call.op = "create_memory" => validate_memory_fact(call.fact) = NoError

\* C14: a memory operation that passes its preconditions issues exactly one
\* remote request, also when that request fails, and then returns the error
\* envelope; one that does not pass issues none.
C14_NoRetries ==
    call.op \in MemoryOps
        => /\ PreconditionsPass => Len(remote) = 1
           /\ ~PreconditionsPass => remote = <<>>
           /\ rsp.kind = "raises"
                => (Len(remote) = 1 /\ ret = format_error_response(rsp.err))

\* a delete whose only request failed
C14_Witness ==
    /\ call.op = "delete_memory"
    /\ rsp.kind = "raises"
    /\ Len(remote) = 1
    /\ remote[1].api = "delete_memory"
    /\ ret.status = "error"

\* C15: the session leaves UNINITIALIZED only by a successful
\* initialize_memory_bank, and a READY session stays READY whatever is
\* invoked next.
C15_SessionStateMachine ==
    [][/\ is_ready(app) => is_ready(app')
       /\ (~is_ready(app) /\ is_ready(app'))
            => (call'.op = "initialize_memory_bank"
                /\ ret'.status = "success")]_vars

\* a READY session after a memory operation whose remote request failed
C15_Witness ==
    /\ is_ready(app)
    /\ call.op = "generate_memories"
    /\ rsp.kind = "raises"
    /\ ret.status = "error"

\* C17: no invocation of a memory operation changes the session state,
\* however it ends.
C17_MemoryOpsFrame ==
    [][call'.op \in MemoryOps => app' = app]_vars

\* a memory created in READY, with an expiration computed
C17_Witness ==
    /\ call.op = "create_memory"
    /\ is_ready(app)
    /\ ret.status = "success"
    /\ ttl_calls # <<>>

\* the requests of an initialization: none deletes or cleans up an engine
NoCleanup ==
    \A i \in 1..Len(remote) :
        remote[i].api \in {"vertexai.Client", "agent_engines.get",
                           "agent_engines.create"}

\* a memory operation that names the engine names the one the most recent
\* successful initialization installed, through that call's client
AddressesInstalled ==
    (call.op \in {"generate_memories", "retrieve_memories", "create_memory",
                  "list_memories"} /\ remote # <<>>)
        => /\ remote[1].name = installed.name
           /\ remote[1].client = installed.client

\* C16 as stated: every initialize_memory_bank call without
\* agent_engine_name issues a create-engine request and no fetch, every call
\* with agent_engine_name a fetch and no create, none a cleanup; memory
\* operations address the engine of the most recent successful call.
C16_EveryCallCreatesOrFetches ==
    /\ call.op = "initialize_memory_bank"
         => /\ NoCleanup
            /\ \E i \in 1..Len(remote) :
                 remote[i].api = IF Truthy(call.agent_engine_name)
                                 THEN "agent_engines.get"
                                 ELSE "agent_engines.create"
            /\ \A i \in 1..Len(remote) :
                 remote[i].api # IF Truthy(call.agent_engine_name)
                                 THEN "agent_engines.create"
                                 ELSE "agent_engines.get"
    /\ AddressesInstalled

\* C16 amended: the same for every call whose client construction did not
\* raise (a call whose client construction raises issues no engine request);
\* the create or fetch goes through the client this call built, and an empty
\* agent_engine_name counts as none.
C16_ReplaceSemantics ==
    /\ call.op = "initialize_memory_bank"
         => /\ NoCleanup
            /\ (rsp.kind = "raises" /\ rsp.at = "client")
                 => (Len(remote) = 1 /\ remote[1].api = "vertexai.Client")
            /\ ~(rsp.kind = "raises" /\ rsp.at = "client")
                 => /\ Len(remote) = 2
                    /\ remote[1].api = "vertexai.Client"
                    /\ remote[2].client = nextId - 1
                    /\ IF call.agent_engine_name.ty = "str"
                          /\ call.agent_engine_name.s # ""
                       THEN /\ remote[2].api = "agent_engines.get"
                            /\ remote[2].name = call.agent_engine_name.s
                       ELSE remote[2].api = "agent_engines.create"
    /\ AddressesInstalled

\* a memory operation addressing the engine of the second successful
\* initialization
C16_Witness ==
    /\ call.op = "list_memories"
    /\ remote # <<>>
    /\ installed.client = 2
    /\ app.initialized
    /\ remote[1].name = installed.name

\* ------------------------------------------------------------------------
\* The event loop: requests arrive while others are being served
\* ------------------------------------------------------------------------
\* The lines of initialize_memory_bank's state update at which the coroutine
\* awaits, that is, at which the event loop may run another coroutine.
AwaitPoints_between_writes == {101}

\* tools.py:61-116 contains no await expression: the SDK calls are
\* synchronous.
AwaitPoints == {}

AScope == Dict(<<<<PyStr("user_id"), PyStr("u1")>>>>)

\* the requests the callers send
LoopRequests ==
    {[op |-> "initialize_memory_bank", project_id |-> "p1",
      location |-> "us-central1", memory_topics |-> <<>>,
      agent_engine_name |-> PyNone],
     [op |-> "initialize_memory_bank", project_id |-> "p2",
      location |-> "europe-west1", memory_topics |-> <<>>,
      agent_engine_name |-> PyStr("engines/1")],
     [op |-> "generate_memories", conversation |-> List(<<GoodTurn>>),
      scope |-> AScope, wait_for_completion |-> TRUE],
     [op |-> "retrieve_memories", scope |-> AScope,
      search_query |-> PyStr("python"), top_k |-> 5],
     [op |-> "create_memory", fact |-> Fact(0, 3, 0), scope |-> AScope,
      ttl_seconds |-> PyNone],
     [op |-> "delete_memory", memory_name |-> "memories/1"],
     [op |-> "list_memories", page_size |-> 50]}

\* the transport receives a request
receive ==
    /\ phase # "startup"
    /\ Cardinality(inflight) < MaxInflight
    /\ \E req \in LoopRequests \ inflight : inflight' = inflight \cup {req}
    /\ UNCHANGED <<phase, app, nextId, call, rsp, remote, ret, raised,
                   ttl_calls, everInitOk, installed, task>>

\* initialize_memory_bank up to the engine it obtains (tools.py:61-97), and
\* its except clause if an SDK call raises
initialize_call ==
    /\ phase = "idle"
    /\ task.pc = 0
    /\ nextId <= MaxInits + 1
    /\ \E req \in inflight, r \in InitRsps :
        /\ req.op = "initialize_memory_bank"
        /\ LET res == initialize_memory_bank(app, req.project_id,
                          req.location, req.memory_topics,
                          req.agent_engine_name, nextId, r)
           IN  IF res.ret.status = "error"
               THEN /\ Invoke(req, r, res)
                    /\ phase' = "returned"
                    /\ task' = task
               ELSE /\ Invoke(req, r, [res EXCEPT !.app = app, !.ret = NoRet])
                    /\ phase' = "running"
                    /\ task' = [pc |-> 100, res |-> res]
    /\ nextId' = nextId + 1
    /\ UNCHANGED <<everInitOk, installed>>

\* the assignment at tools.py line `line`, new holding the assigned values
assign(a, line, new) ==
    CASE line = 100 -> [a EXCEPT !.client = new.client]
      [] line = 101 -> [a EXCEPT !.agent_engine = new.agent_engine]
      [] line = 102 -> [a EXCEPT !.config.project_id = new.config.project_id]
      [] line = 103 -> [a EXCEPT !.config.location = new.config.location]
      [] line = 104 -> [a EXCEPT !.initialized = new.initialized]

\* one assignment of the state update
initialize_write ==
    /\ task.pc \in 100..104
    /\ app' = assign(app, task.pc, task.res.app)
    /\ task' = [task EXCEPT !.pc = @ + 1]
    /\ UNCHANGED <<phase, nextId, call, rsp, remote, ret, raised, ttl_calls,
                   everInitOk, installed, inflight>>

\* the success return
initialize_return ==
    /\ task.pc = 105
    /\ ret' = task.res.ret
    /\ phase' = "returned"
    /\ task' = NoTask
    /\ everInitOk' = TRUE
    /\ installed' = [client |-> task.res.app.client.id,
                     name |-> task.res.ret.agent_engine_name]
    /\ UNCHANGED <<app, nextId, call, rsp, remote, raised, ttl_calls,
                   inflight>>

\* the tool a request names, applied to the request's arguments
memory_operation(a, req, now, r) ==
    CASE req.op = "generate_memories" ->
            generate_memories(a, req.conversation, req.scope,
                              req.wait_for_completion, r)
      [] req.op = "retrieve_memories" ->
            retrieve_memories(a, req.scope, req.search_query, req.top_k, r)
      [] req.op = "create_memory" ->
            create_memory(a, req.fact, req.scope, req.ttl_seconds, now, r)
      [] req.op = "delete_memory" -> delete_memory(a, req.memory_name, r)
      [] req.op = "list_memories" -> list_memories(a, req.page_size, r)

MemoryRsps(op) ==
    CASE op = "generate_memories" -> GenRsps
      [] op = "retrieve_memories" -> RetrieveRsps
      [] op = "create_memory" -> CreateRsps
      [] op = "delete_memory" -> DeleteRsps
      [] op = "list_memories" -> ListRsps

\* The event loop runs the coroutine of a received request for the tool op:
\* it can do so when no coroutine is running or the running one awaits.
run_task(op) ==
    /\ phase = "idle" \/ (phase = "running" /\ task.pc \in AwaitPoints)
    /\ \E req \in inflight, now \in Times :
        /\ req.op = op
        /\ \E r \in RspsFor(memory_operation(app, req, now, Probe),
                            MemoryRsps(op)) :
            Invoke(req, r, memory_operation(app, req, now, r))
    /\ phase' = "returned"
    /\ UNCHANGED <<nextId, everInitOk, installed, task>>

NextLoop ==
    \/ lifespan
    \/ receive
    \/ initialize_call
    \/ initialize_write
    \/ initialize_return
    \/ run_task("generate_memories")
    \/ run_task("retrieve_memories")
    \/ run_task("create_memory")
    \/ run_task("delete_memory")
    \/ run_task("list_memories")
    \/ respond

SpecLoop == Init /\ [][NextLoop]_vars

\* the state holds the writes of no initialize_memory_bank call, or all the
\* writes of the most recent successful one
Whole(a) ==
    IF everInitOk
    THEN /\ a.initialized
         /\ a.client.id = installed.client
         /\ a.agent_engine = Engine(installed.client, installed.name)
         /\ a.config.project_id = a.client.project
         /\ a.config.location = a.client.location
    ELSE a.agent_engine = NoEngine

\* the requests go through the client of the call that obtained the engine
\* they name
Paired(a, requests) ==
    /\ a.client.id = a.agent_engine.id
    /\ \A i \in 1..Len(requests) :
         /\ requests[i].client = a.client.id
         /\ requests[i].api # "delete_memory"
              => requests[i].name = a.agent_engine.name

\* C18: under every interleaving of in-flight invocations, the state an
\* invocation finds when it starts holds all the writes of an initialization
\* or none, and a memory operation's remote calls never pair the client of
\* one initialize_memory_bank call with the engine of another.
C18_InitializationCriticalSection ==
    [][(call' # call /\ call'.op \in Tools)
         => /\ Whole(app)
            /\ (call'.op \in MemoryOps /\ remote' # <<>>)
                 => Paired(app, remote')]_vars

\* a memory operation has reached the service after a re-initialization,
\* while an initialize_memory_bank request is in flight
C18_Witness ==
    /\ call.op \in MemoryOps
    /\ remote # <<>>
    /\ installed.client = 3
    /\ \E q \in inflight : q.op = "initialize_memory_bank"

\* ------------------------------------------------------------------------
\* AppState.reset among the tool calls
\* ------------------------------------------------------------------------
\* app.reset() between two invocations
Reset ==
    /\ phase = "idle"
    /\ app' = reset(app)
    /\ call' = [op |-> "reset"]
    /\ UNCHANGED <<phase, nextId, rsp, remote, ret, raised, ttl_calls,
                   everInitOk, installed, inflight, task>>

NextReset ==
    \/ Next
    \/ Reset

SpecReset == Init /\ [][NextReset]_vars

\* C19: in every state reached by startup, tool calls and reset(), a ready
\* state holds a client, and a memory operation that passed the readiness
\* check did not fail on an absent client.
C19_ReadyImpliesClient ==
    /\ is_ready(app) => app.client # NoClient
    /\ (call.op \in MemoryOps /\ is_ready(app))
         => (ret.status = "error" => ret.error # attribute_error(
                [app EXCEPT !.client = NoClient], TRUE))

\* a memory operation has passed the readiness check and reached the
\* service through the client of a later initialization
C19_Witness ==
    /\ call.op = "delete_memory"
    /\ is_ready(app)
    /\ remote # <<>>
    /\ everInitOk
    /\ app.client.id = 3

====
